---- MODULE Spec2Model ----
(***************************************************************************)
(* A model of the periodic-array crate (src/src/lib.rs).                   *)
(*                                                                         *)
(* PeriodicArray<T, N> wraps a fixed-size array [T; N].  Index/IndexMut    *)
(* access slot `index % N` through get_unchecked / get_unchecked_mut,      *)
(* Deref/DerefMut expose the inner array (iter, iter_mut, map), and the    *)
(* container is built by new, From<[T; N]> or the p_arr! macro.            *)
(*                                                                         *)
(* Arrays are modelled as sequences (slot k of the array is element k+1).  *)
(* A value of Option type is a sequence of length 0 or 1.                  *)
(***************************************************************************)
EXTENDS Integers, Sequences, FiniteSets, TLC

\* ------------------------------------------------------------------ bounds
MaxN == 3
MaxVal == 1
MaxIndex == 6

Values == 0..MaxVal
Indices == 0..MaxIndex
Lengths == 0..MaxN
\* The closures handed to map and iter_mut: |x| x * x as in the crate's tests,
\* |x| x + 1 and |_| 0, with the arithmetic wrapping inside Values.
Transforms ==
    { [v \in Values |-> (v * v) % (MaxVal + 1)],
      [v \in Values |-> (v + 1) % (MaxVal + 1)],
      [v \in Values |-> 0] }

VARIABLES
    N,        \* the const generic parameter N of PeriodicArray<T, N>
    pa,       \* the container: a record with the field `inner`
    supplied, \* the array handed to the constructor
    op,       \* the operation performed last, with its inputs and outputs
    err,      \* how the last operation ended
    mutated,  \* TRUE once index_mut or iter_mut has written to the container
    ref       \* the reference map: residue class r (at r + 1) to its value

vars == <<N, pa, supplied, op, err, mutated, ref>>

\* ---------------------------------------------------------------- helpers
None == <<>>
Some(v) == <<v>>

\* The outcome of one access: the value read (if any) and how it ended
Outcome(out, e) == [out |-> out, err |-> e]

\* i and j are congruent modulo n
Congruent(i, j, n) ==
    \E k \in 0..MaxIndex : i = j + k * n \/ j = i + k * n

\* ------------------------------------------------------- the crate's code

\* A faulty new: the elements are stored in reverse order
newReversed(inner) ==
    [inner |-> [k \in 1..Len(inner) |-> inner[Len(inner) + 1 - k]]]

\* PeriodicArray::new
new(inner) == [inner |-> inner]

\* From<[T; N]>::from
from(inner) == [inner |-> inner]

\* The tokens written between the brackets of p_arr![...]
Expr(v) == [t |-> "expr", v |-> v]
Comma == [t |-> "comma", v |-> 0]

RECURSIVE MacroExprsStrict(_)
\* A faulty matcher $($x:expr,)* : an expression binds only with its comma
MacroExprsStrict(tokens) ==
    IF Len(tokens) < 2 THEN <<>>
    ELSE IF Head(tokens).t = "expr" /\ tokens[2].t = "comma"
    THEN <<Head(tokens).v>> \o MacroExprsStrict(SubSeq(tokens, 3, Len(tokens)))
    ELSE MacroExprsStrict(Tail(tokens))

RECURSIVE MacroExprs(_)
\* The matcher $($x:expr),* $(,)? : the expressions bound to $x, in order.
MacroExprs(tokens) ==
    IF tokens = <<>> THEN <<>>
    ELSE IF Head(tokens).t = "comma" THEN MacroExprs(Tail(tokens))
    ELSE <<Head(tokens).v>> \o MacroExprs(Tail(tokens))

\* p_arr![...] expands to PeriodicArray::new([$($x),*])
p_arr(tokens) == new(MacroExprs(tokens))

\* A faulty remainder: a zero divisor yields 0 instead of a panic
RemZero(a, b) == IF b = 0 THEN Some(0) ELSE Some(a % b)

\* The remainder operator % on usize: a panic (None) when the divisor is zero
Rem(a, b) == IF b = 0 THEN None ELSE Some(a % b)

\* <[T; N]>::get_unchecked: the outcomes the access may produce.  An offset
\* outside the array is undefined behaviour: any value may come back.
get_unchecked(arr, pos) ==
    IF pos \in 0..(Len(arr) - 1)
    THEN {Outcome(Some(arr[pos + 1]), "none")}
    ELSE {Outcome(Some(x), "out_of_bounds") : x \in Values}

\* <[T; N]>::get_unchecked_mut followed by the store through the reference:
\* the arrays the store may leave behind.  An offset outside the array is
\* undefined behaviour: the array is left alone or any one slot is hit.
get_unchecked_mut(arr, pos, v) ==
    IF pos \in 0..(Len(arr) - 1)
    THEN {[inner |-> [arr EXCEPT ![pos + 1] = v], err |-> "none"]}
    ELSE {[inner |-> x, err |-> "out_of_bounds"] :
            x \in {arr} \cup {[arr EXCEPT ![k] = v] : k \in 1..Len(arr)}}

\* A faulty index: the index wraps once, by subtraction
indexWrapOnce(self, n, i) ==
    get_unchecked(self.inner, IF i >= n THEN i - n ELSE i)

\* A faulty index: the remainder is taken modulo N + 1
indexOffByOne(self, n, i) ==
    LET s == Rem(i, n + 1) IN
    IF n = 0 THEN {Outcome(None, "rem_by_zero")}
    ELSE get_unchecked(self.inner, s[1])

\* Index::index: unsafe { self.inner.get_unchecked(index % N) }
index(self, n, i) ==
    LET s == Rem(i, n) IN
    IF s = None THEN {Outcome(None, "rem_by_zero")}
    ELSE get_unchecked(self.inner, s[1])

\* A faulty index_mut: the index is clamped to the last slot
index_mutClamp(self, n, i, v) ==
    IF n = 0 THEN {[inner |-> self.inner, err |-> "rem_by_zero"]}
    ELSE get_unchecked_mut(self.inner, IF i >= n THEN n - 1 ELSE i, v)

\* A faulty index_mut: the slot after the one asked for is written
index_mutNext(self, n, i, v) ==
    LET s == Rem(i + 1, n) IN
    IF s = None THEN {[inner |-> self.inner, err |-> "rem_by_zero"]}
    ELSE get_unchecked_mut(self.inner, s[1], v)

\* IndexMut::index_mut and the assignment through the reference it returns:
\* unsafe { self.inner.get_unchecked_mut(index % N) }
index_mut(self, n, i, v) ==
    LET s == Rem(i, n) IN
    IF s = None THEN {[inner |-> self.inner, err |-> "rem_by_zero"]}
    ELSE get_unchecked_mut(self.inner, s[1], v)

\* derive(PartialEq) on the struct: the inner arrays, element by element
Eq(a, b) ==
    /\ Len(a.inner) = Len(b.inner)
    /\ \A k \in 1..Len(a.inner) : a.inner[k] = b.inner[k]

RECURSIVE IterFrom(_, _)
\* The slice iterator from position k on: the (position, element) pairs
IterFrom(arr, k) ==
    IF k >= Len(arr) THEN <<>>
    ELSE <<[pos |-> k, val |-> arr[k + 1]]>> \o IterFrom(arr, k + 1)

\* A faulty iter: the traversal wraps around to the first element
iterPeriodic(self) ==
    IterFrom(self.inner, 0) \o
      (IF Len(self.inner) = 0 THEN <<>>
       ELSE <<[pos |-> Len(self.inner), val |-> self.inner[1]]>>)

\* <[T; N]>::iter through Deref::deref
iter(self) == IterFrom(self.inner, 0)

\* <[T; N]>::map through Deref::deref: a new array of the same length
map(self, f) == [k \in 1..Len(self.inner) |-> f[self.inner[k]]]

\* A faulty iter_mut: the last element is left out
iter_mutSkipLast(self, f) ==
    [self EXCEPT !.inner =
        [k \in 1..Len(@) |-> IF k = Len(@) THEN @[k] ELSE f[@[k]]]]

\* for p in pa.iter_mut() { *p = f(*p) } through DerefMut::deref_mut
iter_mut(self, f) == [self EXCEPT !.inner = [k \in 1..Len(@) |-> f[@[k]]]]

\* ------------------------------------------------------ inputs and records
Tokens(elems, trailing) ==
    LET Sep(k) == IF k < Len(elems) \/ trailing THEN <<Comma>> ELSE <<>>
        RECURSIVE Build(_)
        Build(k) == IF k > Len(elems) THEN <<>>
                    ELSE <<Expr(elems[k])>> \o Sep(k) \o Build(k + 1)
    IN Build(1)

\* One statement on the container: its inputs, the value a get returned, and
\* in `visited` the elements a traversal visited or the array map built
OpRec(kind, i, value, f, out, visited) ==
    [kind |-> kind, index |-> i, value |-> value, f |-> f, out |-> out,
     visited |-> visited]

\* ------------------------------------------------------------------ Init
Constructors == {"new", "from", "p_arr", "p_arr_trailing"}

Construct(ctor, a) ==
    CASE ctor = "new" -> new(a)
      [] ctor = "from" -> from(a)
      [] ctor = "p_arr" -> p_arr(Tokens(a, FALSE))
      [] ctor = "p_arr_trailing" -> p_arr(Tokens(a, TRUE))

Init ==
    \E n \in Lengths :
      \E a \in [1..n -> Values] :
        \E ctor \in Constructors :
          /\ N = n
          /\ supplied = a
          /\ pa = Construct(ctor, a)
          /\ op = OpRec(ctor, 0, None, None, None, <<>>)
          /\ err = "none"
          /\ mutated = FALSE
          /\ ref = a

\* --------------------------------------------------------------- actions

\* A faulty read: the element is moved out and the slot left zeroed
IndexTake(i) ==
    \E r \in index(pa, N, i) :
      /\ op' = OpRec("index", i, None, None, r.out, <<>>)
      /\ err' = r.err
      /\ pa' = IF r.err = "none"
               THEN [pa EXCEPT !.inner[(i % N) + 1] = 0] ELSE pa
      /\ UNCHANGED <<N, supplied, mutated, ref>>

\* let x = pa[i];
Index(i) ==
    \E r \in index(pa, N, i) :
      /\ op' = OpRec("index", i, None, None, r.out, <<>>)
      /\ err' = r.err
      /\ UNCHANGED <<N, pa, supplied, mutated, ref>>

\* pa[i] = v;
IndexMut(i, v) ==
    \E r \in index_mut(pa, N, i, v) :
      /\ pa' = [pa EXCEPT !.inner = r.inner]
      /\ op' = OpRec("index_mut", i, Some(v), None, None, <<>>)
      /\ err' = r.err
      /\ mutated' = (mutated \/ r.err # "rem_by_zero")
      /\ ref' = IF r.err = "rem_by_zero" THEN ref
                ELSE [k \in 1..Len(ref) |->
                        IF Congruent(k - 1, i, N) THEN v ELSE ref[k]]
      /\ UNCHANGED <<N, supplied>>

\* for x in pa.iter() { ... }
Iter ==
    /\ op' = OpRec("iter", 0, None, None, None, iter(pa))
    /\ err' = "none"
    /\ UNCHANGED <<N, pa, supplied, mutated, ref>>

\* for p in pa.iter_mut() { *p = f(*p) }
IterMut(f) ==
    /\ pa' = iter_mut(pa, f)
    /\ op' = OpRec("iter_mut", 0, None, Some(f), None, iter(pa))
    /\ err' = "none"
    /\ mutated' = TRUE
    /\ ref' = [k \in 1..Len(ref) |-> f[ref[k]]]
    /\ UNCHANGED <<N, supplied>>

\* let x2 = pa.map(f);
Map(f) ==
    /\ op' = OpRec("map", 0, None, Some(f), None, map(pa, f))
    /\ err' = "none"
    /\ UNCHANGED <<N, pa, supplied, mutated, ref>>

Next ==
    \/ \E i \in Indices : Index(i)
    \/ \E i \in Indices, v \in Values : IndexMut(i, v)
    \/ Iter
    \/ \E f \in Transforms : IterMut(f)
    \/ \E f \in Transforms : Map(f)

Spec == Init /\ [][Next]_vars

TypeOK ==
    /\ N \in Lengths
    /\ err \in {"none", "rem_by_zero", "out_of_bounds"}
    /\ mutated \in BOOLEAN

\* ---------------------------------------------------------------- claims

\* What get(i) returns on a sound container: exactly the value v, no error
Returns(v) == {Outcome(Some(v), "none")}

\* The container of the crate's tests, p_arr![1, 2, 3]
Pa123 == p_arr(<<Expr(1), Comma, Expr(2), Comma, Expr(3)>>)

\* C1 - Periodicity: for N > 0, every index i and every k, get(i) returns one
\* value, the same as get(i mod N) and as get(i + k*N); the get just performed
\* returned that value; on [1,2,3], get(3)=1, get(4)=2, get(5)=3.
C1_Periodicity ==
    /\ N > 0 =>
         \A i \in Indices :
           /\ Cardinality(index(pa, N, i)) = 1
           /\ index(pa, N, i) = index(pa, N, i % N)
           /\ \A k \in 0..MaxIndex :
                i + k * N \in Indices =>
                  index(pa, N, i) = index(pa, N, i + k * N)
    /\ (N > 0 /\ op.kind = "index") =>
         /\ index(pa, N, op.index % N) = {Outcome(op.out, err)}
         /\ \A k \in 0..MaxIndex :
              op.index + k * N \in Indices =>
                index(pa, N, op.index + k * N) = {Outcome(op.out, err)}
    /\ index(Pa123, 3, 0) = Returns(1)
    /\ index(Pa123, 3, 1) = Returns(2)
    /\ index(Pa123, 3, 2) = Returns(3)
    /\ index(Pa123, 3, 3) = Returns(1)
    /\ index(Pa123, 3, 4) = Returns(2)
    /\ index(Pa123, 3, 5) = Returns(3)

\* A get at an index that wrapped at least twice has returned
C1_Witness ==
    /\ op.kind = "index" /\ N >= 2 /\ op.index >= 2 * N
    /\ op.out = Some(pa.inner[(op.index % N) + 1])
    /\ \E k \in 1..N : pa.inner[k] # pa.inner[1]

\* C2 - Write-then-read: for N > 0, after set(i, v), get(j) returns v for
\* every j with j mod N = i mod N and what it returned before for every
\* other j; only slot i mod N of the storage changes; set(4, 9) on [1,2,3]
\* leaves [1,9,3].
C2_WriteThenRead ==
    [][ /\ (N > 0 /\ op'.kind = "index_mut") =>
             /\ \A j \in Indices :
                  index(pa', N, j) =
                    IF j % N = op'.index % N
                    THEN Returns(op'.value[1])
                    ELSE index(pa, N, j)
             /\ \A k \in 1..N :
                  (k - 1) # op'.index % N => pa'.inner[k] = pa.inner[k]
             /\ Len(pa'.inner) = Len(pa.inner)
        /\ index_mut(Pa123, 3, 4, 9) = {[inner |-> <<1, 9, 3>>, err |-> "none"]}
      ]_vars

\* A set at a wrapped index has overwritten a slot with a new value
C2_Witness ==
    /\ op.kind = "index_mut" /\ N >= 2 /\ op.index >= N /\ err = "none"
    /\ pa.inner[(op.index % N) + 1] = op.value[1]
    /\ supplied[(op.index % N) + 1] # op.value[1]
    /\ \E k \in 1..N : pa.inner[k] # op.value[1]

\* C3 - In-domain identity: on a container not yet mutated, get(i) for i in
\* [0, N) returns the i-th element supplied at construction.
C3_InDomainIdentity ==
    ~mutated =>
        /\ Len(pa.inner) = Len(supplied)
        /\ \A i \in 0..(N - 1) : index(pa, N, i) = Returns(supplied[i + 1])
        /\ (op.kind = "index" /\ op.index < N) =>
              op.out = Some(supplied[op.index + 1])

\* A get inside [0, N) on an unmutated container of distinct elements
C3_Witness ==
    /\ ~mutated /\ op.kind = "index" /\ N >= 2 /\ op.index \in 1..(N - 1)
    /\ op.out = Some(supplied[op.index + 1])
    /\ supplied[1] # supplied[N]

\* C4 - Construction equivalence: for the supplied elements, p_arr![...] with
\* and without trailing comma, new and from build containers that compare
\* equal to each other and to the container holding the elements.
C4_ConstructionEquivalence ==
    LET direct == [inner |-> supplied] IN
    /\ op.kind \in Constructors =>
         /\ \A c, d \in Constructors :
              /\ Eq(Construct(c, supplied), Construct(d, supplied))
              /\ Eq(Construct(c, supplied), direct)
              /\ Construct(c, supplied) = direct
         /\ Eq(pa, direct) /\ Eq(direct, pa)
         /\ pa = Construct(op.kind, supplied)
    /\ Eq(Pa123, [inner |-> <<1, 2, 3>>])
    /\ Eq(p_arr(<<Expr(1), Comma, Expr(2), Comma, Expr(3), Comma>>), Pa123)

\* A container freshly built by the literal form from distinct elements
C4_Witness ==
    /\ op.kind = "p_arr_trailing" /\ N >= 2
    /\ pa.inner = supplied
    /\ supplied[1] # supplied[N]

\* C5 - Bulk transform law: after map(f), get(i) on a container of the
\* result returns f(get(i) of the original), and after an in-place
\* iter_mut(f), get(i) returns f(what get(i) returned before), for every
\* index, wrapped ones included; squaring [1,2,3] gives [1,4,9] with
\* get(3)=1, get(4)=4.
C5_BulkTransform ==
    [][ LET sq == [v \in 1..3 |-> v * v]
            Image(f, outs) ==
                {Outcome(Some(f[o.out[1]]), o.err) : o \in outs}
        IN
        /\ (N > 0 /\ op'.kind = "map") =>
             /\ Len(op'.visited) = N
             /\ \A i \in Indices :
                  index(new(op'.visited), N, i) =
                    Image(op'.f[1], index(pa, N, i))
             /\ pa' = pa
        /\ (N > 0 /\ op'.kind = "iter_mut") =>
             /\ Len(pa'.inner) = N
             /\ \A i \in Indices :
                  index(pa', N, i) = Image(op'.f[1], index(pa, N, i))
        /\ map(Pa123, sq) = <<1, 4, 9>>
        /\ iter_mut(Pa123, sq) = new(<<1, 4, 9>>)
        /\ index(new(map(Pa123, sq)), 3, 3) = Returns(1)
        /\ index(iter_mut(Pa123, sq), 3, 4) = Returns(4)
      ]_vars

\* An in-place transform has changed some element and kept another
C5_Witness ==
    /\ op.kind = "iter_mut" /\ N >= 2
    /\ \E k \in 1..N : pa.inner[k] # op.visited[k].val
    /\ \A k \in 1..N : pa.inner[k] = op.f[1][op.visited[k].val]
    /\ \E k \in 1..N : pa.inner[k] # pa.inner[1]

\* C6 - No bounds failure: for N > 0 every get and set computes a position in
\* [0, N), inside the N stored elements, and no access has ever gone outside.
C6_NoBoundsFailure ==
    /\ err # "out_of_bounds"
    /\ N > 0 =>
         /\ Len(pa.inner) = N
         /\ \A i \in Indices :
              /\ Rem(i, N) # None
              /\ Rem(i, N)[1] \in 0..(Len(pa.inner) - 1)
              /\ \A o \in index(pa, N, i) : o.err = "none"
              /\ \A v \in Values :
                   \A r \in index_mut(pa, N, i, v) : r.err = "none"

\* A set at the largest index has completed on the longest container
C6_Witness ==
    /\ op.kind = "index_mut" /\ op.index = MaxIndex /\ N = MaxN
    /\ err = "none"

\* C7 - Single failure mode: the only error is a get or set with N = 0, which
\* fails with a remainder-by-zero at every index and leaves the storage
\* alone; construction and traversal succeed for N = 0; for N > 0 nothing
\* fails.
C7_SingleFailureMode ==
    /\ [](/\ err # "none" =>
               /\ N = 0
               /\ op.kind \in {"index", "index_mut"}
               /\ err = "rem_by_zero"
          /\ (N = 0 /\ op.kind \in {"index", "index_mut"}) =>
               err = "rem_by_zero"
          /\ op.kind \notin {"index", "index_mut"} => err = "none"
          /\ N = 0 =>
               \A i \in Indices :
                 /\ index(pa, N, i) = {Outcome(None, "rem_by_zero")}
                 /\ \A v \in Values :
                      index_mut(pa, N, i, v) =
                        {[inner |-> pa.inner, err |-> "rem_by_zero"]})
    /\ [][err' # "none" => pa' = pa /\ op'.out = None]_vars

\* A set on the empty container has failed with a remainder by zero
C7_Witness ==
    /\ N = 0 /\ op.kind = "index_mut" /\ op.index > 0
    /\ err = "rem_by_zero" /\ pa.inner = <<>>

\* C8 - Length invariant: the container always holds exactly N elements, and
\* a linear traversal visits exactly N elements, positions 0..N-1 once each
\* in storage order, whatever gets and sets came before.
C8_LengthInvariant ==
    LET InOrder(visited, arr) ==
          /\ Len(visited) = N
          /\ \A k \in 1..Len(visited) :
               visited[k].pos = k - 1 /\ visited[k].val = arr[k]
    IN
    /\ Len(pa.inner) = N
    /\ InOrder(iter(pa), pa.inner)
    /\ op.kind = "iter" => InOrder(op.visited, pa.inner)
    /\ op.kind = "iter_mut" => Len(op.visited) = N
    /\ op.kind = "map" => Len(op.visited) = N

\* A traversal after a wrapped set has visited all N elements
C8_Witness ==
    /\ op.kind = "iter" /\ N = MaxN /\ mutated
    /\ Len(op.visited) = N
    /\ op.visited[N].val # supplied[N]

\* C9 - Read has no side effects: for N > 0, get(i) leaves every stored
\* element unchanged, so later gets and traversals return what they would
\* have returned without it.
C9_ReadNoSideEffect ==
    [][(N > 0 /\ op'.kind = "index") =>
         /\ pa'.inner = pa.inner
         /\ \A j \in Indices : index(pa', N, j) = index(pa, N, j)
         /\ iter(pa') = iter(pa)
         /\ N' = N
      ]_vars

\* A get at a wrapped index has returned on a mutated container
C9_Witness ==
    /\ op.kind = "index" /\ N >= 2 /\ op.index >= N /\ mutated
    /\ op.out # None /\ err = "none"
    /\ pa.inner # supplied

\* The slot of the reference map that index j falls into
RefSlot(j) == CHOOSE r \in 0..(N - 1) : Congruent(r, j, N)

\* C10 - Last write wins per residue class: for N > 0, get(j) returns the
\* value of the most recent set at an index congruent to j modulo N, or the
\* element supplied at construction when there was none: the container
\* agrees with the reference map from slots 0..N-1 to values.
C10_LastWriteWins ==
    /\ Len(ref) = N
    /\ ~mutated => ref = supplied
    /\ N > 0 =>
         \A j \in Indices :
           /\ \E r \in 0..(N - 1) : Congruent(r, j, N)
           /\ index(pa, N, j) = Returns(ref[RefSlot(j) + 1])

\* A set at a twice-wrapped index won over the constructed element, while
\* another slot still holds what construction put there
C10_Witness ==
    /\ op.kind = "index_mut" /\ N >= 2 /\ op.index >= 2 * N
    /\ mutated /\ err = "none"
    /\ ref[(op.index % N) + 1] = op.value[1]
    /\ pa.inner[(op.index % N) + 1] # supplied[(op.index % N) + 1]
    /\ \E k \in 1..N : ref[k] = supplied[k] /\ ref[k] # op.value[1]
====
